---------------------------- MODULE Spec2Model ----------------------------
(***************************************************************************)
(* Model of the IIO source block of PothosIIO (src/IIOSource.cpp): the     *)
(* constructor's channel selection, and the activate / deactivate / work   *)
(* callbacks with the acquisition buffer they own.                         *)
(*                                                                         *)
(* The device-access layer (IIOSupport / libiio) and the host scheduler    *)
(* are the environment: what they return to the block (buffer creation     *)
(* succeeding or throwing, the buffer's step, ppoll's return value, the    *)
(* refill's return value, the scheduler's output space and timeout) is     *)
(* drawn nondeterministically from small sets.                             *)
(***************************************************************************)
EXTENDS Integers, Sequences, FiniteSets, TLC

(***************************************************************************)
(* Bounds of the model.                                                    *)
(***************************************************************************)
\* largest configured bufferSize (samples per refill)
MaxBufferSize == 2
\* largest step (bytes per sample row) the device layer reports
MaxStep == 2
\* refill error codes are -1 .. -MaxErrno
MaxErrno == 2
\* buffers one engine instance allocates during a run
MaxAlloc == 3
\* width of size_t in bits (scaled down so that values stay small)
SizeBits == 8

(***************************************************************************)
(* Program constants.                                                      *)
(***************************************************************************)
\* divisor and modulus used to split maxTimeoutNs into a timespec
NsDivisor == 10000000

NoDev == "NoDev"
NoBuf == [id |-> 0, size |-> 0, blocking |-> TRUE]

(***************************************************************************)
(* The catalog: IIOContext::get().devices(), each with its channels in     *)
(* device order.                                                           *)
(***************************************************************************)
Chan(id, isOutput, isScanElement) ==
    [id |-> id, isOutput |-> isOutput, isScanElement |-> isScanElement]

CatalogDevices == {"iio:device0", "iio:device1"}

DeviceChannels(d) ==
    IF d = "iio:device0"
    THEN << Chan("voltage0", FALSE, TRUE),
            Chan("voltage1", FALSE, TRUE),
            Chan("altvoltage0", TRUE, FALSE),
            Chan("temp0", FALSE, FALSE) >>
    ELSE << Chan("temp1", FALSE, FALSE),
            Chan("pressure1", FALSE, FALSE) >>

\* constructor arguments tried
DeviceIdArgs == {"", "iio:device0", "iio:device1", "iio:device9"}
ChannelIdArgs ==
    { {}, {"voltage0", "voltage1"}, {"temp0"}, {"altvoltage0"},
      {"temp0", "voltage1"}, {"nosuch"} }
BufferSizeArgs == 1..MaxBufferSize

(***************************************************************************)
(* C integer arithmetic: / and % truncate toward zero; a signed value      *)
(* passed as size_t wraps modulo 2^SizeBits.                               *)
(***************************************************************************)
CDiv(a, b) == IF a >= 0 THEN a \div b ELSE -((-a) \div b)
CMod(a, b) == a - b * CDiv(a, b)
ToSizeT(x) == x % (2 ^ SizeBits)

VARIABLES
    deviceId,     \* constructor argument
    channelIds,   \* constructor argument (the allow-list)
    enablePorts,  \* member enablePorts
    bufferSize,   \* member bufferSize
    ndebug,       \* build configuration: TRUE when assert() is compiled out
    ctorError,    \* "none", or the exception the constructor threw
    dev,          \* member dev: NoDev or the resolved device id
    channels,     \* member channels: the Selected Channel Set, in device order
    ports,        \* ids of the output streams registered by setupOutput
    buf,          \* member buf: NoBuf or the acquisition buffer
    enabled,      \* device state: ids of the channels enabled on the device
    live,         \* device state: ids of the buffers that currently exist
    nextBufId,    \* number of buffers allocated so far
    armed,        \* host lifecycle: TRUE between a successful activate and deactivate
    alive,        \* FALSE once the process was aborted by a failed assert
    last,         \* what the most recent callback did
    workFailed,   \* TRUE once a work() call of this instance ended in an error
    trip          \* progress of an activate -> deactivate -> activate round trip

vars == << deviceId, channelIds, enablePorts, bufferSize, ndebug, ctorError,
           dev, channels, ports, buf, enabled, live, nextBufId, armed, alive,
           last, workFailed, trip >>

config == << deviceId, channelIds, enablePorts, bufferSize, ndebug, ctorError,
             dev, channels, ports >>

(***************************************************************************)
(* Constructor.                                                            *)
(***************************************************************************)
\* lines 71-87: blank id -> partial object; otherwise look the device up
ResolveDevice(id) ==
    IF id = "" THEN NoDev
    ELSE IF id \in CatalogDevices THEN id
    ELSE NoDev

\* lines 84-87: no device found -> throw "device not found"
CtorNeverThrows(id) == "none"
CtorError(id) ==
    IF id # "" /\ id \notin CatalogDevices THEN "DeviceNotFound" ELSE "none"

\* lines 107-115: keep the input channels that pass the allow-list
IsSelectedAnyDirection(c, ids) ==
    ~(Cardinality(ids) > 0 /\ \A s \in ids : s # c.id)
IsSelected(c, ids) ==
    /\ ~c.isOutput
    /\ ~(Cardinality(ids) > 0 /\ \A s \in ids : s # c.id)

SelectedChannels(d, ids) ==
    IF d = NoDev THEN << >>
    ELSE SelectSeq(DeviceChannels(d), LAMBDA c : IsSelected(c, ids))

\* lines 118-121: one output port per selected scan-element channel
HasPort(c, ep) == c.isScanElement /\ ep

OutputPorts(chs, ep) ==
    { chs[i].id : i \in { j \in DOMAIN chs : HasPort(chs[j], ep) } }

(***************************************************************************)
(* Records of what a callback did.                                         *)
(***************************************************************************)
NoTs == [tv_sec |-> 0, tv_nsec |-> 0]
NoProduce == [p \in ports |-> 0]

CallRecord(op) ==
    [ op |-> op, prevOp |-> "", error |-> "none", hadBuf |-> FALSE, bufId |-> 0,
      minOut |-> 0,
      polled |-> FALSE, maxTimeoutNs |-> 0, ts |-> NoTs, ret |-> 0,
      yielded |-> FALSE, refilled |-> FALSE, bytes_read |-> 0, step |-> 0,
      sample_count |-> 0, produced |-> NoProduce, peakLive |-> Cardinality(live),
      steps |-> << >> ]

\* The round trip of activate(), deactivate(), activate(), work() calls in
\* between allowed: "act" after a successful activate, "deact" after the
\* deactivate that follows it (with what that activation had set up),
\* "react" after the successful activate that follows that; "failed" after
\* a failed activate and "idle" after any other deactivate.
NoTrip == [phase |-> "new", bufId |-> 0, bufSize |-> 0, ports |-> {}]

TripAfterActivate(tr, ok) ==
    IF ~ok THEN [NoTrip EXCEPT !.phase = "failed"]
    ELSE IF tr.phase = "deact" THEN [tr EXCEPT !.phase = "react"]
    ELSE [NoTrip EXCEPT !.phase = "act"]

TripAfterDeactivate(tr, b) ==
    IF tr.phase \in {"act", "react"}
    THEN [phase |-> "deact", bufId |-> b.id, bufSize |-> b.size, ports |-> ports]
    ELSE [NoTrip EXCEPT !.phase = "idle"]

(***************************************************************************)
(* Init: the state after IIOSource::IIOSource returned or threw.           *)
(***************************************************************************)
Init ==
    /\ deviceId \in DeviceIdArgs
    /\ channelIds \in ChannelIdArgs
    /\ enablePorts \in BOOLEAN
    /\ bufferSize \in BufferSizeArgs
    /\ ndebug \in BOOLEAN
    /\ ctorError = CtorError(deviceId)
    /\ dev = ResolveDevice(deviceId)
    /\ channels = SelectedChannels(dev, channelIds)
    /\ ports = OutputPorts(channels, enablePorts)
    /\ buf = NoBuf
    /\ enabled = {}
    /\ live = {}
    /\ nextBufId = 0
    /\ armed = FALSE
    /\ alive = TRUE
    /\ last = [CallRecord("construct") EXCEPT !.error = ctorError]
    /\ workFailed = FALSE
    /\ trip = NoTrip

\* the callbacks run on a constructed object of a running process
Callable == alive /\ ctorError = "none"

(***************************************************************************)
(* activate(), lines 204-235.                                              *)
(***************************************************************************)
\* line 206: if (!this->dev) throw "no device specified"
DeviceNeverMissing(d) == FALSE
DeviceMissing(d) == d = NoDev

\* lines 212-214 and 239-241: buf.reset() destroys the buffer that is held
LiveNotReset(lv, b) == lv
LiveAfterReset(lv, b) == IF b # NoBuf THEN lv \ {b.id} ELSE lv

\* lines 216-219: c.enable() for every selected channel
EnablesWholeDevice(en, chs) ==
    en \cup { DeviceChannels(dev)[i].id : i \in DOMAIN DeviceChannels(dev) }
EnabledAfter(en, chs) == en \cup { chs[i].id : i \in DOMAIN chs }

\* lines 220-223: haveScanElements
HaveScanElements(chs) == \E i \in DOMAIN chs : chs[i].isScanElement

\* line 227: if (haveScanElements && this->enablePorts)
WantsBufferIgnoringPorts(chs, ep) == HaveScanElements(chs)
WantsBufferIgnoringScan(chs, ep) == ep
WantsBuffer(chs, ep) == HaveScanElements(chs) /\ ep

\* line 228: dev->createBuffer either returns a buffer or throws
CreateBufferOutcomes == {"ok", "throws"}

\* line 228: new IIOBuffer(...) is an object that did not exist before
ReusedBufId(n) == 1
FreshBufId(n) == n + 1

\* lines 228 and 233: a buffer of bufferSize samples, set non-blocking
NewBuffer(id, size) == [id |-> id, size |-> size, blocking |-> FALSE]

SetMax(S) == CHOOSE x \in S : \A y \in S : y <= x

Activate ==
    /\ Callable
    /\ IF DeviceMissing(dev)
       THEN /\ last' = [CallRecord("activate") EXCEPT
                              !.prevOp = last.op, !.error = "NotConfigured"]
            /\ trip' = TripAfterActivate(trip, FALSE)
            /\ UNCHANGED << buf, enabled, live, nextBufId, armed >>
       ELSE \E outcome \in CreateBufferOutcomes :
            LET liveR == LiveAfterReset(live, buf)
                want == WantsBuffer(channels, enablePorts)
                ok == ~want \/ outcome = "ok"
                id == FreshBufId(nextBufId)
                b == IF want /\ ok THEN NewBuffer(id, bufferSize) ELSE NoBuf
                liveC == IF want /\ ok THEN liveR \cup {id} ELSE liveR
            IN  /\ (want /\ ok) => nextBufId < MaxAlloc
                /\ enabled' = EnabledAfter(enabled, channels)
                /\ buf' = b
                /\ live' = liveC
                /\ nextBufId' = IF want /\ ok THEN id ELSE nextBufId
                /\ armed' = ok
                /\ last' = [CallRecord("activate") EXCEPT
                              !.prevOp = last.op,
                              !.error = IF ok THEN "none" ELSE "BufferAllocationFailed",
                              !.hadBuf = buf # NoBuf,
                              !.bufId = buf.id,
                              !.peakLive = SetMax({Cardinality(live), Cardinality(liveR),
                                                   Cardinality(liveC)})]
                /\ trip' = TripAfterActivate(trip, ok)
    /\ UNCHANGED << config, alive, workFailed >>

(***************************************************************************)
(* deactivate(), lines 237-242.                                            *)
(***************************************************************************)
\* lines 239-241: if (this->buf) this->buf.reset()
BufKept(b) == b
BufAfterDeactivate(b) == IF b # NoBuf THEN NoBuf ELSE b

\* lines 237-242: deactivate() makes no channel call, the enabled state stays
DisablesSelected(en, chs) == en \ { chs[i].id : i \in DOMAIN chs }
EnabledAfterDeactivate(en, chs) == en

Deactivate ==
    /\ Callable
    /\ enabled' = EnabledAfterDeactivate(enabled, channels)
    /\ buf' = BufAfterDeactivate(buf)
    /\ live' = IF buf' = NoBuf THEN LiveAfterReset(live, buf) ELSE live
    /\ armed' = FALSE
    /\ last' = [CallRecord("deactivate") EXCEPT
                  !.prevOp = last.op,
                  !.hadBuf = buf # NoBuf,
                  !.bufId = buf.id,
                  !.peakLive = SetMax({Cardinality(live), Cardinality(live')})]
    /\ trip' = TripAfterDeactivate(trip, buf)
    /\ UNCHANGED << config, nextBufId, alive, workFailed >>

(***************************************************************************)
(* work(), lines 244-285.                                                  *)
(***************************************************************************)
\* inputs of one call: the scheduler's workInfo() (minOutElements, the least
\* space over the output ports, and maxTimeoutNs), and what ppoll, the
\* buffer's step() and refill() return: refill gives the bytes read, at most
\* the buffer's size in bytes, or a negative error code
MinOutElements == 0..MaxBufferSize
Timeouts == {5000000, 15000000}
PollReturns == {-1, 0, 1}
Steps == 1..MaxStep
RefillErrors == (-MaxErrno)..(-1)
RefillReturns(b, step) == (0..(b.size * step)) \cup RefillErrors

\* line 246: if (this->buf)
HasBuffer(b) == b # NoBuf

\* line 248: if (minOutElements < bufferSize) return
BackPressureOffByOne(minOut, size) == minOut < size - 1
BackPressure(minOut, size) == minOut < size

\* lines 257-260: the timespec handed to ppoll
Timespec(t) == [tv_sec |-> t \div NsDivisor, tv_nsec |-> t % NsDivisor]

\* line 262: if (ret < 0) throw
PollNeverFails(ret) == FALSE
PollFailed(ret) == ret < 0

\* line 264: else if (ret == 0) return yield()
PollNeverTimesOut(ret) == FALSE
PollTimedOut(ret) == ret = 0

\* line 270: assert(bytes_read % step == 0), compiled out under NDEBUG
AssertFails(bytes_read, step) == ~ndebug /\ CMod(bytes_read, step) # 0

\* line 271: sample_count = bytes_read / step
SampleCount(bytes_read, step) == CDiv(bytes_read, step)

\* lines 274-283: produce(sample_count) on the port of every selected
\* scan-element channel; produce takes a size_t
ProducedOnFirstOnly(chs, n) ==
    [ p \in ports |->
        IF \E i \in DOMAIN chs :
              /\ chs[i].id = p /\ chs[i].isScanElement
              /\ \A j \in 1..(i - 1) : ~chs[j].isScanElement
        THEN ToSizeT(n) ELSE 0 ]
Produced(chs, n) ==
    [ p \in ports |->
        IF \E i \in DOMAIN chs : chs[i].id = p /\ chs[i].isScanElement
        THEN ToSizeT(n) ELSE 0 ]

WorkCall(b, minOut, t, ret, step, bytes_read) ==
    LET r0 == [CallRecord("work") EXCEPT !.hadBuf = HasBuffer(b), !.bufId = b.id]
    IN
    IF ~HasBuffer(b) THEN r0
    ELSE LET r1 == [r0 EXCEPT !.minOut = minOut,
                               !.steps = Append(@, "backpressure")] IN
    IF BackPressure(minOut, bufferSize) THEN r1
    ELSE LET r2 == [r1 EXCEPT !.polled = TRUE, !.maxTimeoutNs = t,
                               !.ts = Timespec(t), !.ret = ret,
                               !.steps = Append(@, "poll")] IN
    IF PollFailed(ret) THEN [r2 EXCEPT !.error = "PollFailed"]
    ELSE IF PollTimedOut(ret) THEN [r2 EXCEPT !.yielded = TRUE]
    ELSE LET r3 == [r2 EXCEPT !.refilled = TRUE, !.bytes_read = bytes_read,
                               !.step = step,
                               !.steps = Append(@, "refill")] IN
    IF AssertFails(bytes_read, step) THEN [r3 EXCEPT !.error = "AssertionFailed"]
    ELSE [r3 EXCEPT !.sample_count = SampleCount(bytes_read, step),
                    !.produced = Produced(channels, SampleCount(bytes_read, step)),
                    !.steps = Append(@, "produce")]

\* an input is drawn only in the calls that read it: ppoll is reached past
\* the two early returns, refill past the two poll checks
Polls(b, minOut) == HasBuffer(b) /\ ~BackPressure(minOut, bufferSize)
Refills(b, minOut, ret) ==
    Polls(b, minOut) /\ ~PollFailed(ret) /\ ~PollTimedOut(ret)

Work ==
    /\ Callable
    /\ \E minOut \in (IF HasBuffer(buf) THEN MinOutElements ELSE {0}) :
       \E t \in (IF Polls(buf, minOut) THEN Timeouts ELSE {0}),
          ret \in (IF Polls(buf, minOut) THEN PollReturns ELSE {0}) :
       \E step \in (IF Refills(buf, minOut, ret) THEN Steps ELSE {1}) :
       \E bytes_read \in (IF Refills(buf, minOut, ret)
                           THEN RefillReturns(buf, step) ELSE {0}) :
          last' = WorkCall(buf, minOut, t, ret, step, bytes_read)
    /\ alive' = (last'.error # "AssertionFailed")
    /\ workFailed' = (workFailed \/ last'.error # "none")
    /\ UNCHANGED << config, buf, enabled, live, nextBufId, armed, trip >>

Next == Activate \/ Deactivate \/ Work

Spec == Init /\ [][Next]_vars

(***************************************************************************)
(* Properties.                                                             *)
(***************************************************************************)
\* ids of the scan-element channels of the Selected Channel Set
ScanSelected ==
    { channels[i].id : i \in { j \in DOMAIN channels : channels[j].isScanElement } }

\* the last call produced no sample on any output stream
NothingProduced == \A p \in ports : last.produced[p] = 0

\* C1: a work() call made while a buffer exists and minOutElements is below
\* the configured bufferSize returns without a poll, without a refill and
\* without producing a sample on any stream.
C1_BackpressureReturnsEarly ==
    (last.op = "work" /\ buf # NoBuf /\ last.minOut < bufferSize)
        => /\ ~last.polled
           /\ ~last.refilled
           /\ ~last.yielded
           /\ last.error = "none"
           /\ NothingProduced

\* half the capacity available, two streams, as in the spec's scenario
C1_Witness ==
    /\ last.op = "work" /\ buf # NoBuf
    /\ bufferSize = 2 /\ last.minOut = 1
    /\ Cardinality(ports) = 2

\* C2: in a work() call that refills, every selected scan-element channel's
\* stream is advanced by the same amount, none is skipped, and when the call
\* gets to produce from a refill of bytes_read >= 0 bytes that amount is
\* bytes_read / step.
C2_StreamsAdvanceTogether ==
    (last.op = "work" /\ last.refilled)
        => /\ ScanSelected = ports
           /\ \A p, q \in ScanSelected : last.produced[p] = last.produced[q]
           /\ (last.error = "none" /\ last.bytes_read >= 0)
                 => \A p \in ScanSelected :
                        last.produced[p] = last.bytes_read \div last.step

\* a full buffer of two-byte rows on two streams
C2_Witness ==
    /\ last.op = "work" /\ last.refilled /\ last.error = "none"
    /\ Cardinality(ScanSelected) = 2
    /\ last.step = 2 /\ last.bytes_read = 4
    /\ \A p \in ScanSelected : last.produced[p] = 2

\* C3: a refill whose bytes_read is not a whole multiple of step ends work()
\* in a fatal error and produces no sample on any stream.
C3_MisalignedRefillIsFatal ==
    (last.op = "work" /\ last.refilled /\ last.bytes_read > 0
       /\ last.bytes_read % last.step # 0)
        => /\ last.error # "none"
           /\ NothingProduced

\* C4: after a successful activate() a buffer exists exactly when the
\* Selected Channel Set holds a scan-element channel and enablePorts is true.
C4_BufferIffScanAndPorts ==
    (last.op = "activate" /\ last.error = "none")
        => ((buf # NoBuf) <=> (ScanSelected # {} /\ enablePorts))

\* a successful re-activation (after activate and deactivate) holding a buffer
C4_Witness ==
    /\ last.op = "activate" /\ last.error = "none"
    /\ trip.phase = "react"
    /\ buf # NoBuf

\* C5: with no scan-element channel selected no buffer is ever allocated, and
\* a work() call without a buffer does nothing: no poll, no refill, no
\* sample, no error.
C5_NoBufferNoWork ==
    /\ ScanSelected = {} => (buf = NoBuf /\ nextBufId = 0 /\ live = {})
    /\ (last.op = "work" /\ buf = NoBuf)
          => /\ ~last.polled
             /\ ~last.refilled
             /\ ~last.yielded
             /\ last.error = "none"
             /\ NothingProduced

\* work() on an activated engine whose device has no scan-element channel
C5_Witness ==
    /\ dev = "iio:device1" /\ channels # << >> /\ enablePorts
    /\ armed
    /\ last.op = "work"

\* C6: deactivate() never fails and leaves the engine idle without a buffer,
\* whatever state it is called in.
C6_DeactivateTotal ==
    last.op = "deactivate"
        => /\ last.error = "none"
           /\ buf = NoBuf
           /\ live = {}
           /\ ~armed

\* deactivate() twice in a row, after an activation that held a buffer
C6_Witness ==
    /\ last.op = "deactivate" /\ last.prevOp = "deactivate"
    /\ nextBufId > 0

\* C7: after activate(), deactivate(), activate() the engine holds a buffer
\* exactly if it did after the first activation, of the same capacity
\* (bufferSize), with the same output streams, and the buffer is a new one.
C7_RoundTrip ==
    trip.phase = "react"
        => /\ (buf # NoBuf) <=> (trip.bufId # 0)
           /\ buf.size = trip.bufSize
           /\ ports = trip.ports
           /\ buf # NoBuf => /\ buf.size = bufferSize
                             /\ buf.id # trip.bufId
                             /\ buf.id \notin (1..trip.bufId)

\* the round trip of an engine that streams two channels
C7_Witness ==
    /\ trip.phase = "react"
    /\ last.op = "activate"
    /\ buf # NoBuf /\ trip.bufId # 0
    /\ Cardinality(ports) = 2

\* C8: on an engine constructed with an empty deviceId every activate()
\* fails with NotConfigured and nothing is enabled, released or allocated.
C8_ActivateNeedsDevice ==
    deviceId = ""
        => /\ last.op = "activate" => last.error = "NotConfigured"
           /\ buf = NoBuf
           /\ enabled = {}
           /\ live = {}
           /\ nextBufId = 0
           /\ ~armed

C8_Witness ==
    /\ deviceId = ""
    /\ last.op = "activate" /\ last.error = "NotConfigured"

\* C9: a failed activate() leaves the engine not armed, without a buffer,
\* and enables no channel.
C9_FailedActivateLeavesNothing ==
    [][ (Activate /\ last'.error # "none")
           => (~armed' /\ buf' = NoBuf /\ enabled' = enabled) ]_vars

\* C10: a readiness wait that times out is no error: the call yields, does
\* not refill, produces nothing, and the engine stays armed with the same
\* buffer, so that a later work() call can refill.
C10_TimeoutYields ==
    (last.op = "work" /\ last.polled /\ last.ret = 0)
        => /\ last.error = "none"
           /\ last.yielded
           /\ ~last.refilled
           /\ NothingProduced
           /\ armed /\ alive
           /\ buf # NoBuf /\ buf.id = last.bufId
           /\ ENABLED (Work /\ last'.refilled)

C10_Witness ==
    /\ last.op = "work" /\ last.polled /\ last.ret = 0
    /\ last.yielded

\* C11: once a work() call has failed (PollFailed or the refill assertion),
\* no later work() call of the instance refills or produces samples.
C11_WorkFailureIsFatal ==
    (workFailed /\ last.op = "work" /\ last.error = "none")
        => (~last.refilled /\ NothingProduced)

\* C12: the wait handed to ppoll, tv_sec seconds plus tv_nsec nanoseconds,
\* is at most the scheduler's maxTimeoutNs nanoseconds.
C12_WaitWithinTimeout ==
    (last.op = "work" /\ last.polled)
        => last.ts.tv_sec * 1000000000 + last.ts.tv_nsec <= last.maxTimeoutNs

\* the channels of the resolved device, as a set
DeviceChannelSet == { DeviceChannels(dev)[i] : i \in DOMAIN DeviceChannels(dev) }

\* the Selected Channel Set, as a set
SelectedSet == { channels[i] : i \in DOMAIN channels }

\* C13: the Selected Channel Set holds a channel of the device exactly when
\* it is an input channel and the allow-list is empty or names it; this
\* holds in every state, so no callback changes the set.
C13_SelectedChannelSet ==
    dev # NoDev
        => /\ \A c \in DeviceChannelSet :
                 (c \in SelectedSet)
                    <=> (~c.isOutput /\ (channelIds = {} \/ c.id \in channelIds))
           /\ SelectedSet \subseteq DeviceChannelSet
           /\ Cardinality(SelectedSet) = Len(channels)

\* an allow-list naming two input channels of the device, after the engine
\* was activated, ran work() into a failure and was deactivated
C13_Witness ==
    /\ dev = "iio:device0" /\ channelIds = {"temp0", "voltage1"}
    /\ Len(channels) = 2
    /\ last.op = "deactivate" /\ last.hadBuf
    /\ workFailed

\* ids of the Selected Channel Set
SelectedIds == { c.id : c \in SelectedSet }

\* C14: the output streams are the selected scan-element channels when
\* enablePorts is true and none otherwise, in every state; a channel outside
\* the Selected Channel Set is never enabled and never receives samples.
C14_StreamsFixedAndSelectedOnly ==
    /\ ports = (IF enablePorts THEN ScanSelected ELSE {})
    /\ enabled \subseteq SelectedIds
    /\ DOMAIN last.produced = ports
    /\ \A p \in DOMAIN last.produced :
          last.produced[p] # 0 => p \in ScanSelected

\* selection {voltage0, voltage1} of a device that has two more channels:
\* two streams, both fed by a full refill, the other channels left disabled
C14_Witness ==
    /\ dev = "iio:device0" /\ channelIds = {"voltage0", "voltage1"}
    /\ ports = {"voltage0", "voltage1"}
    /\ enabled = {"voltage0", "voltage1"}
    /\ last.op = "work" /\ last.refilled
    /\ \A p \in ports : last.produced[p] = bufferSize

\* C15: at most one acquisition buffer exists at any time, also inside an
\* activate() on an armed engine: the buffer held is released before the
\* new one is allocated, and the only buffer that exists is the one held.
C15_AtMostOneBuffer ==
    /\ Cardinality(live) <= 1
    /\ last.peakLive <= 1
    /\ live = (IF buf = NoBuf THEN {} ELSE {buf.id})

\* activate() on an engine that holds a buffer, ending with a new buffer
C15_Witness ==
    /\ last.op = "activate" /\ last.error = "none"
    /\ last.hadBuf
    /\ buf # NoBuf /\ buf.id # last.bufId

C18_ConstructionOutcome ==
    /\ (deviceId # "" /\ deviceId \notin CatalogDevices)
          => /\ ctorError = "DeviceNotFound"
             /\ last.op = "construct" /\ last.error = "DeviceNotFound"
             /\ ~armed /\ buf = NoBuf /\ enabled = {}
    /\ deviceId = ""
          => /\ ctorError = "none"
             /\ dev = NoDev
             /\ channels = << >>
             /\ ports = {}
             /\ ~armed
             /\ last.op = "activate" => last.error # "none"
    /\ deviceId \in CatalogDevices => (ctorError = "none" /\ dev = deviceId)

\* the placeholder, activated twice in a row without success
C18_Witness ==
    /\ deviceId = ""
    /\ last.op = "activate" /\ last.prevOp = "activate"
    /\ last.error = "NotConfigured"
    /\ trip.phase = "failed"

\* the steps of a complete work() call, in the order of the code
WorkOrder == << "backpressure", "poll", "refill", "produce" >>

\* C19: the steps of one work() call are an initial part of backpressure
\* check, readiness wait, refill, produce, each at most once; the refill
\* comes only after the wait of the same call reported data ready, and
\* samples are produced only after that refill.
C19_WorkStepsInOrder ==
    last.op = "work"
        => /\ Len(last.steps) <= Len(WorkOrder)
           /\ \A i \in DOMAIN last.steps : last.steps[i] = WorkOrder[i]
           /\ last.polled <=> (\E i \in DOMAIN last.steps : last.steps[i] = "poll")
           /\ last.refilled <=> (\E i \in DOMAIN last.steps : last.steps[i] = "refill")
           /\ last.refilled
                 => /\ last.polled /\ last.ret > 0
                    /\ last.hadBuf /\ last.minOut >= bufferSize
           /\ ~NothingProduced
                 => /\ last.refilled
                    /\ last.steps = WorkOrder

\* a call that went through all four steps and produced samples
C19_Witness ==
    /\ last.op = "work"
    /\ last.steps = WorkOrder
    /\ last.bytes_read > 0
    /\ ~NothingProduced

\* C20: deactivate() changes only the buffer: the enabled state of every
\* channel, the Selected Channel Set, the output streams and the
\* configuration stay as they were; over any step of activate, work or
\* deactivate the enabled set only grows.
C20_DeactivateChangesOnlyBuffer ==
    [][ /\ Deactivate
           => /\ enabled' = enabled
              /\ channels' = channels
              /\ ports' = ports
              /\ enablePorts' = enablePorts
              /\ bufferSize' = bufferSize
              /\ UNCHANGED config
              /\ buf' = NoBuf
        /\ enabled \subseteq enabled' ]_vars

\* deactivate() released a buffer and the channels activate() enabled are
\* still enabled
C20_Witness ==
    /\ last.op = "deactivate"
    /\ last.prevOp = "work"
    /\ last.hadBuf
    /\ buf = NoBuf
    /\ enabled = SelectedIds
    /\ enabled # {}
=============================================================================
